---------------------------- MODULE Spec2Model ----------------------------
(***************************************************************************)
(* Rule engine of anraku/tetris (src/src/main.rs): the Bevy systems that   *)
(* move, lock, clear and respawn blocks, and the schedule main() builds.   *)
(*                                                                         *)
(* Entities carry no data but their Position, so the StackedBlock and the  *)
(* PrimitiveBlock entities of the world are bags (multisets) of positions: *)
(* two entities may hold the same position.  Commands (spawn, despawn) are *)
(* buffered and applied when the stage's systems have run.  Time is        *)
(* counted in quarter seconds.                                             *)
(***************************************************************************)
EXTENDS Integers, FiniteSets, Sequences, Bags, TLC

\* ------------------------------------------------------------ constants
\* Board size (10 x 20 in the source, scaled down to keep the state space finite
\* and small; every operator below is written in terms of the two names).
ARENA_WIDTH == 5
ARENA_HEIGHT == 3
\* BLOCK_RESPAWN_DELAY = 1.0 s and FixedTimestep::step(0.5), in quarter seconds.
BLOCK_RESPAWN_DELAY == 4
FIXED_STEP == 2

\* ------------------------------------------------------------ bounds
\* The clock stops at MaxTime; a frame lasts 1..MaxDelta quarter seconds.
MaxTime == 10
MaxDelta == 3
\* random::<f32>() is k / RandomGrain for k in 0..RandomGrain-1.
RandomGrain == 7
\* The masks given to generate_tetorimino_positions have up to MaxMask rows and
\* up to MaxMask columns.
MaxMask == 2
\* The clock of the runs with long frames stops at LagMaxTime.
LagMaxTime == 23

\* ------------------------------------------------------------ data
Pos(px, py) == [x |-> px, y |-> py]

Direction == {"Neutral", "Left", "Up", "Right", "Down"}

Keys == {"Left", "Right", "Down", "Up"}

\* lazy_static BLOCKMAP: key -> offsets of the shape's cells.
BLOCKMAP ==
  [i \in 1..7 |->
     CASE i = 1 -> {Pos(0, 0), Pos(1, 0), Pos(0, 1), Pos(1, 1)}
       [] i = 2 -> {Pos(-1, 1), Pos(0, 1), Pos(0, 0), Pos(1, 0)}
       [] i = 3 -> {Pos(-1, 0), Pos(0, 0), Pos(0, 1), Pos(1, 1)}
       [] i = 4 -> {Pos(1, 0), Pos(0, 0), Pos(0, 1), Pos(0, 2)}
       [] i = 5 -> {Pos(-1, 0), Pos(0, 0), Pos(0, 1), Pos(0, 2)}
       [] i = 6 -> {Pos(-1, 0), Pos(0, 0), Pos(1, 0), Pos(0, 1)}
       [] i = 7 -> {Pos(0, 0), Pos(0, 1), Pos(0, 2), Pos(0, 3)}]

\* The systems of the Update stage.
AllSystems == {"input", "fall", "move", "stack", "destroy", "respawn", "free"}
FixedSystems == {"fall", "move"}

VARIABLES
  locked,        \* bag of positions: the StackedBlock entities of the world
  active,        \* bag of positions: the PrimitiveBlock entities of the world
  is_on,         \* ActiveBlock.is_on
  direction,     \* ActiveBlock.direction
  stack_time,    \* StackTime.0
  now,           \* Time::seconds_since_startup of the current frame
  accumulator,   \* FixedTimestep's accumulator
  cmdStack,      \* buffered spawns of StackedBlock entities (stack_block)
  cmdDespawn,    \* stack_block buffered the despawn of every PrimitiveBlock
  cmdDestroy,    \* buffered despawns of StackedBlock entities (destroy_block)
  cmdSpawn,      \* buffered spawns of PrimitiveBlock entities (spawn_block)
  phase,         \* "startup", "idle", "main" (a frame's first run of the stage's
                 \* systems) or "extra" (a further run of the fixed-step set)
  fixed_run,     \* the fixed-step set runs in this run of the stage's systems
  ran,           \* the systems that have run in this run of the stage's systems
  last,          \* the step taken last
  board_before,  \* the StackedBlock entities the last destroy_block started from
  gen_args,      \* generate_tetorimino_positions' arguments: base_position, block
  gen_res        \* the Vec<Position> generate_tetorimino_positions returned

vars == <<locked, active, is_on, direction, stack_time, now, accumulator,
          cmdStack, cmdDespawn, cmdDestroy, cmdSpawn, phase, fixed_run, ran,
          last, board_before, gen_args, gen_res>>

\* The variables of generate_tetorimino_positions, which no system calls.
genVars == <<gen_args, gen_res>>

\* ------------------------------------------------------------ helpers
\* Every entity of bag b moved to f[its position].
MapBag(b, f) ==
  LET img == {f[p] : p \in DOMAIN b}
      Sum[S \in SUBSET DOMAIN b] ==
        IF S = {} THEN 0
        ELSE LET p == CHOOSE q \in S : TRUE IN b[p] + Sum[S \ {p}]
  IN [q \in img |-> Sum[{p \in DOMAIN b : f[p] = q}]]

\* stacked_block_query.iter().any(|stacked_pos| stacked_pos == pos)
is_collision(pos, stacked) == pos \in DOMAIN stacked

\* move_tetoriminos: every entity without StackedBlock moves by diff.
move_tetoriminos(t, diff) ==
  MapBag(t, [p \in DOMAIN t |-> Pos(p.x + diff.x, p.y + diff.y)])


\* ------------------------------------------------------------ shape masks
\* An Array2<u32>: its rows, and the order in which it holds its elements in
\* memory ("row_major" as arr2 builds it, "column_major" as reversed_axes
\* leaves it).
Layouts == {"row_major", "column_major"}

\* block.shape(): rows, columns.
shape(block) == <<Len(block.rows), Len(block.rows[1])>>

\* ndarray's is_standard_layout: the array is contiguous in row-major order (an
\* axis of length 1 does not count).
is_standard_layout(block) ==
  \/ block.layout = "row_major"
  \/ shape(block)[1] = 1
  \/ shape(block)[2] = 1

\* block.as_slice(): Some(the elements in row-major order) for an array in
\* standard layout, None for any other.
as_slice(block) ==
  IF is_standard_layout(block)
  THEN [some |-> TRUE,
        s |-> [k \in 1..(shape(block)[1] * shape(block)[2]) |->
                 block.rows[((k - 1) \div shape(block)[2]) + 1][((k - 1) % shape(block)[2]) + 1]]]
  ELSE [some |-> FALSE, s |-> <<>>]

\* generate_tetorimino_positions' loop from element k of the slice on, res being
\* the positions pushed so far.
RECURSIVE generate_from(_, _, _, _, _, _, _)
generate_from(base_position, s, x_size, k, x_idx, y_idx, res) ==
  IF k > Len(s) THEN res
  ELSE LET pushed == IF s[k] = 1
                     THEN Append(res, Pos(base_position.x + x_idx, base_position.y + y_idx))
                     ELSE res
       IN IF x_idx + 1 >= x_size
          THEN generate_from(base_position, s, x_size, k + 1, 0, y_idx + 1, pushed)
          ELSE generate_from(base_position, s, x_size, k + 1, x_idx + 1, y_idx, pushed)

\* generate_tetorimino_positions with x_size taken from shape()[0], the number of
\* rows.
generate_tetorimino_positions_rows(base_position, block) ==
  IF as_slice(block).some
  THEN generate_from(base_position, as_slice(block).s, shape(block)[1], 1, 0, 0, <<>>)
  ELSE <<>>

\* generate_tetorimino_positions (x_size is shape()[1], the number of columns):
\* the loop runs if let Some(s) = block.as_slice(), and res stays empty otherwise.
generate_tetorimino_positions(base_position, block) ==
  IF as_slice(block).some
  THEN generate_from(base_position, as_slice(block).s, shape(block)[2], 1, 0, 0, <<>>)
  ELSE <<>>

\* ------------------------------------------------------------ systems
\* (random::<f32>() * BLOCKMAP.keys().len() as f32) as u32, for random = k / RandomGrain
RandomIndex(k) == (k * Cardinality(DOMAIN BLOCKMAP)) \div RandomGrain

\* spawn_block without its last statement, active_block.is_on = true.
spawn_block_flag(isOn, idx) ==
  IF ~isOn
  THEN [cmds |-> IF idx \in DOMAIN BLOCKMAP
                 THEN SetToBag({Pos(p.x + 3, p.y + (ARENA_HEIGHT - 1)) : p \in BLOCKMAP[idx]})
                 ELSE EmptyBag,
        is_on |-> isOn]
  ELSE [cmds |-> EmptyBag, is_on |-> isOn]

\* spawn_block: the buffered PrimitiveBlock spawns and the new is_on.
spawn_block(isOn, idx) ==
  IF ~isOn
  THEN [cmds |-> IF idx \in DOMAIN BLOCKMAP
                 THEN SetToBag({Pos(p.x + 3, p.y + (ARENA_HEIGHT - 1)) : p \in BLOCKMAP[idx]})
                 ELSE EmptyBag,
        is_on |-> TRUE]
  ELSE [cmds |-> EmptyBag, is_on |-> isOn]

\* respawn_block with the comparison of the clock not strict (>=).
respawn_block_at(isOn, t, stackT, idx) ==
  IF ~isOn /\ t >= stackT + BLOCK_RESPAWN_DELAY
  THEN spawn_block(isOn, idx)
  ELSE [cmds |-> EmptyBag, is_on |-> isOn]

\* respawn_block
respawn_block(isOn, t, stackT, idx) ==
  IF ~isOn /\ t > stackT + BLOCK_RESPAWN_DELAY
  THEN spawn_block(isOn, idx)
  ELSE [cmds |-> EmptyBag, is_on |-> isOn]

\* block_movement_input: justPressed are the keys pressed in this frame, downHeld
\* is pressed(KeyCode::Down).
block_movement_input(justPressed, downHeld) ==
  IF "Left" \in justPressed THEN "Left"
  ELSE IF "Right" \in justPressed THEN "Right"
  ELSE IF downHeld THEN "Down"
  ELSE IF "Up" \in justPressed THEN "Up"
  ELSE "Neutral"

\* block_free_fall without its first statement, the return on Direction::Down.
block_free_fall_always(cells, stacked, dir) ==
  LET collision_flag ==
        \E p \in DOMAIN cells :
          p.y <= 0 /\ ~is_collision(Pos(p.x, p.y - 1), stacked)
  IN IF ~collision_flag THEN move_tetoriminos(cells, Pos(0, -1)) ELSE cells

\* block_free_fall: the positions of the entities without StackedBlock after it.
block_free_fall(cells, stacked, dir) ==
  IF dir = "Down" THEN cells
  ELSE LET collision_flag ==
             \E p \in DOMAIN cells :
               p.y <= 0 /\ ~is_collision(Pos(p.x, p.y - 1), stacked)
       IN IF ~collision_flag THEN move_tetoriminos(cells, Pos(0, -1)) ELSE cells

\* block_movement with the wall tests off by one (x < 0, x > ARENA_WIDTH - 1).
block_movement_wall(cells, stacked, dir) ==
  LET collision_flag ==
        IF dir = "Left"
        THEN \E p \in DOMAIN cells : is_collision(Pos(p.x - 1, p.y), stacked) \/ p.x < 0
        ELSE IF dir = "Right"
        THEN \E p \in DOMAIN cells :
               is_collision(Pos(p.x + 1, p.y), stacked) \/ p.x > ARENA_WIDTH - 1
        ELSE IF dir = "Down"
        THEN \E p \in DOMAIN cells : is_collision(Pos(p.x, p.y - 1), stacked) \/ p.y <= 0
        ELSE FALSE
  IN IF ~collision_flag
     THEN IF dir = "Left" THEN move_tetoriminos(cells, Pos(-1, 0))
          ELSE IF dir = "Right" THEN move_tetoriminos(cells, Pos(1, 0))
          ELSE IF dir = "Down" THEN move_tetoriminos(cells, Pos(0, -1))
          ELSE cells
     ELSE cells

\* block_movement deciding and moving block by block: a blocked block stays, the
\* others move.
block_movement_partial(cells, stacked, dir) ==
  LET diff == IF dir = "Left" THEN Pos(-1, 0)
              ELSE IF dir = "Right" THEN Pos(1, 0)
              ELSE IF dir = "Down" THEN Pos(0, -1)
              ELSE Pos(0, 0)
      blocked(p) ==
        \/ is_collision(Pos(p.x + diff.x, p.y + diff.y), stacked)
        \/ (dir = "Left" /\ p.x <= 0)
        \/ (dir = "Right" /\ p.x >= ARENA_WIDTH - 1)
        \/ (dir = "Down" /\ p.y <= 0)
  IN MapBag(cells, [p \in DOMAIN cells |->
                      IF blocked(p) THEN p ELSE Pos(p.x + diff.x, p.y + diff.y)])

\* block_movement: the positions of the entities without StackedBlock after it.
block_movement(cells, stacked, dir) ==
  LET collision_flag ==
        IF dir = "Left"
        THEN \E p \in DOMAIN cells : is_collision(Pos(p.x - 1, p.y), stacked) \/ p.x <= 0
        ELSE IF dir = "Right"
        THEN \E p \in DOMAIN cells :
               is_collision(Pos(p.x + 1, p.y), stacked) \/ p.x >= ARENA_WIDTH - 1
        ELSE IF dir = "Down"
        THEN \E p \in DOMAIN cells : is_collision(Pos(p.x, p.y - 1), stacked) \/ p.y <= 0
        ELSE FALSE
  IN IF ~collision_flag
     THEN IF dir = "Left" THEN move_tetoriminos(cells, Pos(-1, 0))
          ELSE IF dir = "Right" THEN move_tetoriminos(cells, Pos(1, 0))
          ELSE IF dir = "Down" THEN move_tetoriminos(cells, Pos(0, -1))
          ELSE cells
     ELSE cells

\* stack_block's conditions with the ground test off by one (y < 0).
stack_triggered_ground(cells, stacked) ==
  \/ \E p \in DOMAIN cells : p.y < 0
  \/ \E p \in DOMAIN cells : is_collision(Pos(p.x, p.y - 1), stacked)

\* stack_block's two conditions: some active block on the ground, or some active
\* block directly above a stacked one.
stack_triggered(cells, stacked) ==
  \/ \E p \in DOMAIN cells : p.y <= 0
  \/ \E p \in DOMAIN cells : is_collision(Pos(p.x, p.y - 1), stacked)

\* stack_block: the buffered commands and the resources after it.
stack_block(cells, stacked, isOn, stackT, t) ==
  IF stack_triggered(cells, stacked)
  THEN [spawns |-> cells, despawn |-> TRUE, is_on |-> FALSE, stack_time |-> t]
  ELSE [spawns |-> EmptyBag, despawn |-> FALSE, is_on |-> isOn, stack_time |-> stackT]

\* The entities of bag b at height h.
RowOf(b, h) ==
  LET row == {p \in DOMAIN b : p.y = h} IN [p \in row |-> b[p]]

\* The shift with the test off by one (y >= h): row h itself moves too.
lower_above_inclusive(world, h) ==
  MapBag(world, [p \in DOMAIN world |-> IF p.y >= h THEN Pos(p.x, p.y - 1) ELSE p])

\* destroy_block's shift: every StackedBlock entity higher than h goes down by one.
lower_above(world, h) ==
  MapBag(world, [p \in DOMAIN world |-> IF p.y > h THEN Pos(p.x, p.y - 1) ELSE p])

\* destroy_block's loop from row h on: world are the StackedBlock entities (those
\* whose despawn is buffered included: they stay in the query), doomed the
\* buffered despawns.
RECURSIVE destroy_from(_, _, _)
destroy_from(h, world, doomed) ==
  IF h >= ARENA_HEIGHT THEN [world |-> world, doomed |-> doomed]
  ELSE LET entities == RowOf(world, h)
       IN IF BagCardinality(entities) = ARENA_WIDTH
          THEN destroy_from(h + 1, lower_above(world, h), doomed (+) entities)
          ELSE IF BagCardinality(entities) = 0
          THEN [world |-> world, doomed |-> doomed]
          ELSE destroy_from(h + 1, world, doomed)

\* destroy_block
destroy_block(stacked) == destroy_from(0, stacked, EmptyBag)

\* FixedTimestep's run criterion: whether the accumulated time holds a step.
fixed_timestep_due(acc) == acc >= FIXED_STEP

\* The systems that must have run before the stage applies the command buffers.
Scheduled == IF phase = "main"
             THEN IF fixed_run THEN AllSystems ELSE AllSystems \ FixedSystems
             ELSE FixedSystems

\* ------------------------------------------------------------ initial state
\* The resources main() inserts; no entity exists before the startup stage.
Init ==
  /\ locked = EmptyBag
  /\ active = EmptyBag
  /\ is_on = FALSE
  /\ direction = "Neutral"
  /\ stack_time = 0
  /\ now = 0
  /\ accumulator = 0
  /\ cmdStack = EmptyBag
  /\ cmdDespawn = FALSE
  /\ cmdDestroy = EmptyBag
  /\ cmdSpawn = EmptyBag
  /\ phase = "startup"
  /\ fixed_run = FALSE
  /\ ran = {}
  /\ last = "init"
  /\ board_before = EmptyBag
  /\ gen_args = [base_position |-> Pos(0, 0), block |-> [rows |-> <<<<1, 1>>, <<1, 1>>>>, layout |-> "row_major"]]
  /\ gen_res = <<>>

\* ------------------------------------------------------------ actions
\* Startup stage "game_setup": spawn_block, then the stage applies its commands.
StartupSpawn ==
  /\ phase = "startup"
  /\ \E k \in 0..(RandomGrain - 1) :
       LET s == spawn_block(is_on, RandomIndex(k)) IN
         /\ active' = active (+) s.cmds
         /\ is_on' = s.is_on
  /\ phase' = "idle"
  /\ last' = "startup"
  /\ UNCHANGED <<locked, direction, stack_time, now, accumulator, cmdStack,
                 cmdDespawn, cmdDestroy, cmdSpawn, fixed_run, ran, board_before>>
  /\ UNCHANGED genVars

\* A frame begins: the clock advances and FixedTimestep decides whether the
\* fixed-step set runs.
BeginFrame ==
  /\ phase = "idle"
  /\ \E dt \in 1..MaxDelta :
       /\ now + dt <= MaxTime
       /\ now' = now + dt
       /\ fixed_run' = fixed_timestep_due(accumulator + dt)
       /\ accumulator' = IF fixed_timestep_due(accumulator + dt)
                         THEN accumulator + dt - FIXED_STEP
                         ELSE accumulator + dt
  /\ phase' = "main"
  /\ ran' = {}
  /\ last' = "begin"
  /\ UNCHANGED <<locked, active, is_on, direction, stack_time, cmdStack,
                 cmdDespawn, cmdDestroy, cmdSpawn, board_before>>
  /\ UNCHANGED genVars

\* block_movement_input (label Input, before Movement)
Input ==
  /\ phase = "main"
  /\ "input" \notin ran
  /\ \E justPressed \in SUBSET (Keys \ {"Down"}), downHeld \in BOOLEAN :
       direction' = block_movement_input(justPressed, downHeld)
  /\ ran' = ran \cup {"input"}
  /\ last' = "input"
  /\ UNCHANGED <<locked, active, is_on, stack_time, now, accumulator, cmdStack,
                 cmdDespawn, cmdDestroy, cmdSpawn, phase, fixed_run, board_before>>
  /\ UNCHANGED genVars

\* block_free_fall moving every Position, that of the StackedBlock entities too
\* (move_tetoriminos on a query without the Without<StackedBlock> filter).
FreeFallAll ==
  /\ phase \in {"main", "extra"}
  /\ fixed_run
  /\ "fall" \notin ran
  /\ phase = "main" => "input" \in ran
  /\ active' = block_free_fall(active, locked, direction)
  /\ locked' = IF block_free_fall(active, locked, direction) # active
               THEN move_tetoriminos(locked, Pos(0, -1))
               ELSE locked
  /\ ran' = ran \cup {"fall"}
  /\ last' = "fall"
  /\ UNCHANGED <<is_on, direction, stack_time, now, accumulator, cmdStack,
                 cmdDespawn, cmdDestroy, cmdSpawn, phase, fixed_run, board_before>>
  /\ UNCHANGED genVars

\* block_free_fall (fixed-step set, label Movement, after Input)
FreeFall ==
  /\ phase \in {"main", "extra"}
  /\ fixed_run
  /\ "fall" \notin ran
  /\ phase = "main" => "input" \in ran
  /\ active' = block_free_fall(active, locked, direction)
  /\ ran' = ran \cup {"fall"}
  /\ last' = "fall"
  /\ UNCHANGED <<locked, is_on, direction, stack_time, now, accumulator, cmdStack,
                 cmdDespawn, cmdDestroy, cmdSpawn, phase, fixed_run, board_before>>
  /\ UNCHANGED genVars

\* block_movement (fixed-step set, label Movement, after Input)
MovementFixed ==
  /\ phase \in {"main", "extra"}
  /\ fixed_run
  /\ "move" \notin ran
  /\ phase = "main" => "input" \in ran
  /\ active' = block_movement(active, locked, direction)
  /\ ran' = ran \cup {"move"}
  /\ last' = "move"
  /\ UNCHANGED <<locked, is_on, direction, stack_time, now, accumulator, cmdStack,
                 cmdDespawn, cmdDestroy, cmdSpawn, phase, fixed_run, board_before>>
  /\ UNCHANGED genVars

\* block_movement (added once more with no label: every frame, unordered)
MovementFree ==
  /\ phase = "main"
  /\ "free" \notin ran
  /\ active' = block_movement(active, locked, direction)
  /\ ran' = ran \cup {"free"}
  /\ last' = "free"
  /\ UNCHANGED <<locked, is_on, direction, stack_time, now, accumulator, cmdStack,
                 cmdDespawn, cmdDestroy, cmdSpawn, phase, fixed_run, board_before>>
  /\ UNCHANGED genVars

\* stack_block (label Stack, after Movement)
StackBlock ==
  /\ phase = "main"
  /\ "stack" \notin ran
  /\ "input" \in ran
  /\ fixed_run => FixedSystems \subseteq ran
  /\ LET s == stack_block(active, locked, is_on, stack_time, now) IN
       /\ cmdStack' = s.spawns
       /\ cmdDespawn' = s.despawn
       /\ is_on' = s.is_on
       /\ stack_time' = s.stack_time
  /\ ran' = ran \cup {"stack"}
  /\ last' = "stack"
  /\ UNCHANGED <<locked, active, direction, now, accumulator, cmdDestroy,
                 cmdSpawn, phase, fixed_run, board_before>>
  /\ UNCHANGED genVars

\* destroy_block (label Destroy, after Stack)
DestroyBlock ==
  /\ phase = "main"
  /\ "destroy" \notin ran
  /\ "stack" \in ran
  /\ LET d == destroy_block(locked) IN
       /\ locked' = d.world
       /\ cmdDestroy' = d.doomed
  /\ board_before' = locked
  /\ ran' = ran \cup {"destroy"}
  /\ last' = "destroy"
  /\ UNCHANGED <<active, is_on, direction, stack_time, now, accumulator, cmdStack,
                 cmdDespawn, cmdSpawn, phase, fixed_run>>
  /\ UNCHANGED genVars

\* respawn_block (after Destroy)
RespawnBlock ==
  /\ phase = "main"
  /\ "respawn" \notin ran
  /\ "destroy" \in ran
  /\ \E k \in 0..(RandomGrain - 1) :
       LET s == respawn_block(is_on, now, stack_time, RandomIndex(k)) IN
         /\ cmdSpawn' = s.cmds
         /\ is_on' = s.is_on
  /\ ran' = ran \cup {"respawn"}
  /\ last' = "respawn"
  /\ UNCHANGED <<locked, active, direction, stack_time, now, accumulator, cmdStack,
                 cmdDespawn, cmdDestroy, phase, fixed_run, board_before>>
  /\ UNCHANGED genVars

\* The stage's systems have run: their command buffers are applied, and
\* FixedTimestep is asked again (it runs its set once per accumulated step).
ApplyBuffers ==
  /\ phase \in {"main", "extra"}
  /\ ran = Scheduled
  /\ locked' = (locked (-) cmdDestroy) (+) cmdStack
  /\ active' = (IF cmdDespawn THEN EmptyBag ELSE active) (+) cmdSpawn
  /\ cmdStack' = EmptyBag
  /\ cmdDespawn' = FALSE
  /\ cmdDestroy' = EmptyBag
  /\ cmdSpawn' = EmptyBag
  /\ IF fixed_run /\ fixed_timestep_due(accumulator)
     THEN /\ accumulator' = accumulator - FIXED_STEP
          /\ phase' = "extra"
          /\ fixed_run' = TRUE
     ELSE /\ accumulator' = accumulator
          /\ phase' = "idle"
          /\ fixed_run' = FALSE
  /\ ran' = {}
  /\ last' = "apply"
  /\ UNCHANGED <<is_on, direction, stack_time, now, board_before>>
  /\ UNCHANGED genVars

Next ==
  \/ StartupSpawn
  \/ BeginFrame
  \/ Input
  \/ FreeFall
  \/ MovementFixed
  \/ MovementFree
  \/ StackBlock
  \/ DestroyBlock
  \/ RespawnBlock
  \/ ApplyBuffers

Spec == Init /\ [][Next]_vars


\* ------------------------------------------------------------ line clear alone
\* One Update stage on a given board: destroy_block, respawn_block, and the
\* command buffers applied.  The board is any stack of rows, each empty, full, or
\* one of three partial rows; row ARENA_HEIGHT (above the rows destroy_block
\* scans) is drawn too.
RowPatterns ==
  {{}, 0..(ARENA_WIDTH - 1), {0}, 1..(ARENA_WIDTH - 1), {ARENA_WIDTH - 1}}

ClearBoards ==
  {SetToBag({p \in {Pos(c, r) : c \in 0..(ARENA_WIDTH - 1), r \in 0..ARENA_HEIGHT} :
                p.x \in f[p.y]}) :
     f \in [0..ARENA_HEIGHT -> RowPatterns]}

ClearInit ==
  /\ locked \in ClearBoards
  /\ active = EmptyBag
  /\ is_on = FALSE
  /\ direction = "Neutral"
  /\ stack_time = 0
  /\ now = 0
  /\ accumulator = 0
  /\ cmdStack = EmptyBag
  /\ cmdDespawn = FALSE
  /\ cmdDestroy = EmptyBag
  /\ cmdSpawn = EmptyBag
  /\ phase = "main"
  /\ fixed_run = FALSE
  /\ ran = {"input", "free", "stack"}
  /\ last = "stack"
  /\ board_before = EmptyBag
  /\ gen_args = [base_position |-> Pos(0, 0), block |-> [rows |-> <<<<1, 1>>, <<1, 1>>>>, layout |-> "row_major"]]
  /\ gen_res = <<>>

ClearNext ==
  \/ DestroyBlock
  \/ RespawnBlock
  \/ ApplyBuffers

ClearSpec == ClearInit /\ [][ClearNext]_vars

\* ------------------------------------------------------------ shape masks alone
\* generate_tetorimino_positions on a given base position and a given mask: any
\* rectangular mask of 0 and 1 with 1..MaxMask rows and 1..MaxMask columns, held
\* in either layout.
Masks ==
  [rows : UNION {[1..r -> [1..c -> {0, 1}]] : r \in 1..MaxMask, c \in 1..MaxMask},
   layout : Layouts]

BasePositions == {Pos(bx, by) : bx \in {-1, 0, 3}, by \in {0, ARENA_HEIGHT - 1}}

GenInit ==
  /\ gen_args \in [base_position : BasePositions, block : Masks]
  /\ gen_res = <<>>
  /\ locked = EmptyBag
  /\ active = EmptyBag
  /\ is_on = FALSE
  /\ direction = "Neutral"
  /\ stack_time = 0
  /\ now = 0
  /\ accumulator = 0
  /\ cmdStack = EmptyBag
  /\ cmdDespawn = FALSE
  /\ cmdDestroy = EmptyBag
  /\ cmdSpawn = EmptyBag
  /\ phase = "generate"
  /\ fixed_run = FALSE
  /\ ran = {}
  /\ last = "init"
  /\ board_before = EmptyBag

\* The call of generate_tetorimino_positions.
Generate ==
  /\ phase = "generate"
  /\ gen_res' = generate_tetorimino_positions(gen_args.base_position, gen_args.block)
  /\ phase' = "generated"
  /\ last' = "generate"
  /\ UNCHANGED <<locked, active, is_on, direction, stack_time, now, accumulator,
                 cmdStack, cmdDespawn, cmdDestroy, cmdSpawn, fixed_run, ran,
                 board_before, gen_args>>

GenNext == Generate

GenSpec == GenInit /\ [][GenNext]_vars

\* ------------------------------------------------------------ long frames
\* The same program on a machine whose frames last 2 or 5 quarter seconds (a
\* frame may last longer than BLOCK_RESPAWN_DELAY), played with the Down key
\* alone, until the clock reaches LagMaxTime.
LagDeltas == {2, 5}

\* A frame begins: as BeginFrame, with a frame time drawn from LagDeltas.
LagBeginFrame ==
  /\ phase = "idle"
  /\ \E dt \in LagDeltas :
       /\ now + dt <= LagMaxTime
       /\ now' = now + dt
       /\ fixed_run' = fixed_timestep_due(accumulator + dt)
       /\ accumulator' = IF fixed_timestep_due(accumulator + dt)
                         THEN accumulator + dt - FIXED_STEP
                         ELSE accumulator + dt
  /\ phase' = "main"
  /\ ran' = {}
  /\ last' = "begin"
  /\ UNCHANGED <<locked, active, is_on, direction, stack_time, cmdStack,
                 cmdDespawn, cmdDestroy, cmdSpawn, board_before>>
  /\ UNCHANGED genVars

\* block_movement_input with no key but Down in use.
LagInput ==
  /\ phase = "main"
  /\ "input" \notin ran
  /\ \E downHeld \in BOOLEAN :
       direction' = block_movement_input({}, downHeld)
  /\ ran' = ran \cup {"input"}
  /\ last' = "input"
  /\ UNCHANGED <<locked, active, is_on, stack_time, now, accumulator, cmdStack,
                 cmdDespawn, cmdDestroy, cmdSpawn, phase, fixed_run, board_before>>
  /\ UNCHANGED genVars

LagNext ==
  \/ StartupSpawn
  \/ LagBeginFrame
  \/ LagInput
  \/ FreeFall
  \/ MovementFixed
  \/ MovementFree
  \/ StackBlock
  \/ DestroyBlock
  \/ RespawnBlock
  \/ ApplyBuffers

LagSpec == Init /\ [][LagNext]_vars

\* ------------------------------------------------------------ vocabulary of the claims
\* System sys takes this step.
Step(sys) == sys \notin ran /\ sys \in ran'

\* The command buffers are applied in this step.
ApplyStep == phase \in {"main", "extra"} /\ ran = Scheduled /\ ran' = {}

\* The StackedBlock entities that are not about to be despawned.
LockedCells == locked (-) cmdDestroy

\* The number of entities of bag b at height h.
RowCount(b, h) == BagCardinality(RowOf(b, h))

\* One step of a direction.
Offset(dir) == IF dir = "Left" THEN Pos(-1, 0)
               ELSE IF dir = "Right" THEN Pos(1, 0)
               ELSE IF dir = "Down" THEN Pos(0, -1)
               ELSE Pos(0, 0)

\* Some cell of the piece, moved one step, leaves [0, WIDTH), goes below the floor
\* or meets a locked cell.
CandidateBlocked(cells, dir, stacked) ==
  \E p \in DOMAIN cells :
    LET q == Pos(p.x + Offset(dir).x, p.y + Offset(dir).y) IN
      q.x < 0 \/ q.x >= ARENA_WIDTH \/ q.y < 0 \/ q \in DOMAIN stacked

\* after is before with every cell moved one step of dir.
ShiftedBy(before, after, dir) ==
  /\ BagCardinality(after) = BagCardinality(before)
  /\ \A p \in DOMAIN before :
       CopiesIn(Pos(p.x + Offset(dir).x, p.y + Offset(dir).y), after) = before[p]

\* Some cell of the piece is on the ground or directly above a locked cell.
LockCondition(cells, stacked) ==
  \E p \in DOMAIN cells : p.y <= 0 \/ Pos(p.x, p.y - 1) \in DOMAIN stacked

\* The piece lies on the stack: above a locked cell, within none.
RestsOnStack(cells, stacked) ==
  /\ \E p \in DOMAIN cells : Pos(p.x, p.y - 1) \in DOMAIN stacked
  /\ DOMAIN cells \cap DOMAIN stacked = {}

\* The cells are those of one catalog shape, each once, translated.
IsOneShape(cells) ==
  /\ \A p \in DOMAIN cells : cells[p] = 1
  /\ \E i \in DOMAIN BLOCKMAP, o \in DOMAIN cells :
       \E b \in BLOCKMAP[i] :
         DOMAIN cells = {Pos(q.x - b.x + o.x, q.y - b.y + o.y) : q \in BLOCKMAP[i]}

\* ------------------------------------------------------------ claims
\* C1: in every reachable state no two locked cells share a position.
C1_NoTwoLockedCellsShareAPosition ==
  \A p \in DOMAIN LockedCells : LockedCells[p] = 1

\* C2: after every committed move of the active piece (block_movement or
\* block_free_fall changed its position, in a frame's regular run of the systems)
\* no cell of it is at the position of a locked cell.
C2_NoOverlapAfterCommittedMove ==
  [][((Step("fall") \/ Step("move") \/ Step("free")) /\ phase = "main" /\ is_on
        /\ active' # active)
       => DOMAIN active' \cap DOMAIN locked' = {}]_vars

\* C3: every locked and every active cell (buffered spawns included) has
\* 0 <= x < WIDTH, and no locked cell has y < 0.
C3_CellsWithinWallsAndAboveFloor ==
  /\ \A p \in DOMAIN locked \cup DOMAIN cmdStack \cup DOMAIN active \cup DOMAIN cmdSpawn :
       0 <= p.x /\ p.x < ARENA_WIDTH
  /\ \A p \in DOMAIN locked \cup DOMAIN cmdStack : p.y >= 0

\* C3 witness: a line clear has just lowered locked cells to row 0, one of them
\* at the left wall.
C3_Witness ==
  /\ phase = "idle"
  /\ last = "apply"
  /\ \E h \in 0..(ARENA_HEIGHT - 1) : RowCount(board_before, h) = ARENA_WIDTH
  /\ BagCardinality(locked) = BagCardinality(board_before) - ARENA_WIDTH
  /\ \E p \in DOMAIN locked : p.x = 0 /\ p.y = 0

\* C4: every locked cell has 0 <= y < HEIGHT.
C4_LockedCellsBelowHeight ==
  \A p \in DOMAIN locked : 0 <= p.y /\ p.y < ARENA_HEIGHT

\* C5: at most one active piece exists (the falling cells, with those whose spawn
\* is buffered, are none or one shape), and a respawn_block step taken while an
\* active piece exists (the flag is set, or its cells are still in the world)
\* changes nothing.
C5_AtMostOneActivePiece ==
  /\ [](active (+) cmdSpawn = EmptyBag \/ IsOneShape(active (+) cmdSpawn))
  /\ [][(Step("respawn") /\ (is_on \/ active # EmptyBag))
         => UNCHANGED <<locked, active, is_on, direction, stack_time, cmdStack,
                        cmdDespawn, cmdDestroy, cmdSpawn>>]_vars

\* C5 witness: respawn_block has just run with a piece falling and the respawn
\* delay long over, and spawned nothing.
C5_Witness ==
  /\ last = "respawn"
  /\ is_on
  /\ IsOneShape(active)
  /\ now > stack_time + BLOCK_RESPAWN_DELAY
  /\ cmdSpawn = EmptyBag

\* C6: a Left, Right or SoftDrop command moves every cell of the piece one step of
\* that direction, or, if the step of any one cell is blocked, moves no cell.
C6_MoveIsAtomic ==
  [][((Step("move") \/ Step("free")) /\ direction \in {"Left", "Right", "Down"})
       => IF CandidateBlocked(active, direction, locked)
          THEN active' = active
          ELSE ShiftedBy(active, active', direction)]_vars

\* C6 witness: a Left command has just been refused to a piece of which one cell
\* has a locked cell to its left and another has a free cell to its left.
C6_Witness ==
  /\ last \in {"move", "free"}
  /\ direction = "Left"
  /\ is_on
  /\ \E p \in DOMAIN active : Pos(p.x - 1, p.y) \in DOMAIN locked
  /\ \E p \in DOMAIN active :
       /\ p.x > 0
       /\ Pos(p.x - 1, p.y) \notin DOMAIN locked
       /\ Pos(p.x - 1, p.y) \notin DOMAIN active

\* C9: stack_block locks exactly when some cell of the piece is on the ground or
\* directly above a locked cell; it then buffers one locked cell per cell of the
\* piece, at that cell's position, and the despawn of the piece, clears the flag
\* and sets StackTime to now; otherwise it changes nothing.  When the buffers are
\* applied the piece is gone and exactly those cells have joined the locked cells.
C9_LockIsExactAndAtomic ==
  /\ [][Step("stack")
         => /\ IF LockCondition(active, locked)
               THEN /\ cmdStack' = active
                    /\ cmdDespawn'
                    /\ ~is_on'
                    /\ stack_time' = now
               ELSE /\ cmdStack' = EmptyBag
                    /\ ~cmdDespawn'
                    /\ UNCHANGED <<is_on, stack_time>>
            /\ UNCHANGED <<locked, active, direction, now, cmdDestroy, cmdSpawn>>]_vars
  /\ [][(ApplyStep /\ cmdDespawn)
         => /\ active' = EmptyBag
            /\ \A p \in DOMAIN locked' \cup DOMAIN LockedCells \cup DOMAIN cmdStack :
                 CopiesIn(p, locked') = CopiesIn(p, LockedCells) + CopiesIn(p, cmdStack)]_vars

\* C9 witness: stack_block has just locked a piece that touches no ground but has
\* a cell directly above a locked cell.
C9_Witness ==
  /\ last = "stack"
  /\ cmdDespawn
  /\ ~is_on
  /\ cmdStack = active
  /\ stack_time = now
  /\ IsOneShape(active)
  /\ \A p \in DOMAIN active : p.y > 0
  /\ \E p \in DOMAIN active : Pos(p.x, p.y - 1) \in DOMAIN locked

\* C10: a gravity step taken with the piece resting on the stack as the frame
\* found it (no movement system has run yet) does not move the piece.
C10_RestingPieceIsNotMovedDown ==
  [][(Step("fall") /\ phase = "main" /\ is_on /\ ran \cap {"move", "free"} = {}
        /\ RestsOnStack(active, locked))
       => active' = active]_vars

\* The rows destroy_block scans that hold exactly WIDTH locked cells.
FullRows(b) == {h \in 0..(ARENA_HEIGHT - 1) : RowCount(b, h) = ARENA_WIDTH}

\* The Update stage that ran destroy_block is over.
PassDone == phase = "idle" /\ last = "apply"

\* post is pre without row h: the rows below h as they were, every row from h on
\* holding what the row above it held.
RowRemoved(pre, post, h) ==
  /\ BagCardinality(post) = BagCardinality(pre) - ARENA_WIDTH
  /\ \A c \in 0..(ARENA_WIDTH - 1), r \in 0..ARENA_HEIGHT :
       CopiesIn(Pos(c, r), post) =
         IF r < h THEN CopiesIn(Pos(c, r), pre) ELSE CopiesIn(Pos(c, r + 1), pre)

\* post is pre without its full rows: every other cell lower by the number of full
\* rows that were below it, and no row of post full.
FullRowsRemoved(pre, post) ==
  /\ BagCardinality(post) = BagCardinality(pre) - ARENA_WIDTH * Cardinality(FullRows(pre))
  /\ \A p \in DOMAIN pre :
       p.y \notin FullRows(pre) =>
         CopiesIn(Pos(p.x, p.y - Cardinality({f \in FullRows(pre) : f < p.y})), post) = pre[p]
  /\ \A r \in 0..ARENA_HEIGHT : RowCount(post, r) # ARENA_WIDTH

\* C7 as claimed: on any board of which row h is the only full row, one pass
\* removes row h, lowers the cells above it by one and leaves those below.
C7_SingleFullRowIsCleared ==
  PassDone =>
    \A h \in 0..(ARENA_HEIGHT - 1) :
      (/\ RowCount(board_before, h) = ARENA_WIDTH
       /\ \A r \in (0..ARENA_HEIGHT) \ {h} : RowCount(board_before, r) # ARENA_WIDTH)
      => RowRemoved(board_before, locked, h)

\* C7 as amended: the same, for a board with no empty row below row h.
C7_SingleFullRowAboveNoEmptyRowIsCleared ==
  PassDone =>
    \A h \in 0..(ARENA_HEIGHT - 1) :
      (/\ RowCount(board_before, h) = ARENA_WIDTH
       /\ \A r \in (0..ARENA_HEIGHT) \ {h} : RowCount(board_before, r) # ARENA_WIDTH
       /\ \A r \in 0..(h - 1) : RowCount(board_before, r) > 0)
      => RowRemoved(board_before, locked, h)

\* C7 witness: a pass has cleared the only full row of a board, row 1, with
\* locked cells below it and above it.
C7_Witness ==
  /\ PassDone
  /\ FullRows(board_before) = {1}
  /\ RowCount(board_before, ARENA_HEIGHT) # ARENA_WIDTH
  /\ RowCount(board_before, 0) > 0
  /\ RowCount(board_before, 2) > 0
  /\ RowRemoved(board_before, locked, 1)
  /\ locked # board_before

\* C8: on a board with two or more full rows (none of the rows below the highest
\* of them empty, and the row above the scanned ones not full), one pass removes
\* every full row and lowers each other cell by the number of full rows below it.
C8_AllFullRowsAreCleared ==
  PassDone =>
    ((/\ Cardinality(FullRows(board_before)) >= 2
      /\ RowCount(board_before, ARENA_HEIGHT) # ARENA_WIDTH
      /\ \A r \in 0..(ARENA_HEIGHT - 1) :
           (\E f \in FullRows(board_before) : r < f) => RowCount(board_before, r) > 0)
     => FullRowsRemoved(board_before, locked))

\* C11: a gravity step taken with a piece in play and a direction other than
\* Down moves every active cell down by one row exactly when a Down move would be
\* committed (no cell at the floor, no locked cell directly beneath a cell), and
\* leaves the piece unchanged otherwise.
C11_GravityStepsExactlyAsSoftDrop ==
  [][(Step("fall") /\ is_on /\ active # EmptyBag /\ direction # "Down")
       => IF CandidateBlocked(active, "Down", locked)
          THEN active' = active
          ELSE ShiftedBy(active, active', "Down")]_vars

\* C12: a gravity step taken with direction Down leaves every active cell where
\* it is.
C12_GravityYieldsToSoftDrop ==
  [][(Step("fall") /\ direction = "Down") => active' = active]_vars

\* C12 witness: gravity has just run with direction Down on a piece that is in
\* play, above the floor and with no locked cell beneath it.
C12_Witness ==
  /\ last = "fall"
  /\ direction = "Down"
  /\ is_on
  /\ active # EmptyBag
  /\ ~CandidateBlocked(active, "Down", locked)

\* C13 as claimed: a respawn_block step taken with no piece in play and the
\* clock at or past the time of the last lock plus RESPAWN_DELAY (the clock exactly
\* at it included) spawns.
C13_SpawnsOnceDelayHasElapsed ==
  [][(Step("respawn") /\ ~is_on /\ now >= stack_time + BLOCK_RESPAWN_DELAY)
       => is_on']_vars

\* C13 as amended: a respawn_block step spawns exactly when no piece is in play
\* and the clock is past the time of the last lock plus RESPAWN_DELAY; with the
\* clock at or before it, it spawns nothing.
C13_SpawnsOnceDelayHasPassed ==
  [][Step("respawn")
       => /\ (is_on' /\ ~is_on) <=> (~is_on /\ now > stack_time + BLOCK_RESPAWN_DELAY)
          /\ ~(~is_on /\ now > stack_time + BLOCK_RESPAWN_DELAY)
               => (cmdSpawn' = EmptyBag /\ is_on' = is_on)]_vars

\* C13 witness: a piece has been locked, and respawn_block has just spawned the
\* next one in the first frame past the delay (the frame before was at or before
\* it: at most MaxDelta earlier).
C13_Witness ==
  /\ last = "respawn"
  /\ locked # EmptyBag
  /\ stack_time > 0
  /\ is_on
  /\ cmdSpawn # EmptyBag
  /\ now > stack_time + BLOCK_RESPAWN_DELAY

\* The cells are those of catalog shape i translated by (3, HEIGHT - 1), each once.
IsShapeAtOrigin(cells, i) ==
  cells = SetToBag({Pos(p.x + 3, p.y + (ARENA_HEIGHT - 1)) : p \in BLOCKMAP[i]})

\* C14: every spawn (that of the startup stage, and every respawn_block step that
\* raises is_on) installs a piece that is one catalog shape translated by
\* (3, HEIGHT - 1), never an empty piece.
C14_EverySpawnInstallsACatalogShape ==
  [][/\ (phase = "startup" /\ phase' = "idle")
          => \E i \in DOMAIN BLOCKMAP : IsShapeAtOrigin(active', i)
     /\ (Step("respawn") /\ ~is_on /\ is_on')
          => \E i \in DOMAIN BLOCKMAP : IsShapeAtOrigin(cmdSpawn', i)]_vars

\* C15: a Left or Right sampled in a frame moves the piece by one column at most,
\* whether or not the fixed tick fires in that frame: once the block_movement of
\* the fixed-step set has applied the direction sampled in this frame, the
\* block_movement that runs in every frame does not move the piece again.
C15_LeftRightActOncePerPress ==
  [][(/\ Step("free")
      /\ phase = "main"
      /\ {"input", "move"} \subseteq ran
      /\ last = "move"
      /\ direction \in {"Left", "Right"}
      /\ is_on)
       => active' = active]_vars

\* The 1 entries of a mask: row and column, counted from 0.
OneEntries(block) ==
  {e \in (0..(shape(block)[1] - 1)) \X (0..(shape(block)[2] - 1)) :
     block.rows[e[1] + 1][e[2] + 1] = 1}

\* res holds one position for each 1 entry of the mask, (base.x + column,
\* base.y + row), in row-major order, and nothing else.
OnePositionPerOneEntry(base, block, res) ==
  /\ Len(res) = Cardinality(OneEntries(block))
  /\ \A e \in OneEntries(block) :
       \E i \in 1..Len(res) : res[i] = Pos(base.x + e[2], base.y + e[1])
  /\ \A i \in 1..Len(res), j \in 1..Len(res) :
       i < j => \/ res[i].y < res[j].y
                \/ (res[i].y = res[j].y /\ res[i].x < res[j].x)

\* C16 as claimed: for any rectangular mask of 0 and 1,
\* generate_tetorimino_positions(base, mask) returns one position for each 1
\* entry of the mask, (base.x + column, base.y + row), in row-major order, and
\* nothing else.
C16_OnePositionPerOneEntryInRowMajorOrder ==
  last = "generate" =>
    OnePositionPerOneEntry(gen_args.base_position, gen_args.block, gen_res)

\* C16 as amended: the same for any mask held in standard layout (contiguous, in
\* row-major order); for any other mask the function returns nothing.
C16_OnePositionPerOneEntryInStandardLayout ==
  last = "generate" =>
    IF is_standard_layout(gen_args.block)
    THEN OnePositionPerOneEntry(gen_args.base_position, gen_args.block, gen_res)
    ELSE gen_res = <<>>

\* C16 witness: the function has run on a mask of two rows and two columns in
\* standard layout that has both entries, on a base position other than the
\* origin, and has returned more than one position.
C16_Witness ==
  /\ last = "generate"
  /\ gen_args.block.layout = "row_major"
  /\ Len(gen_args.block.rows) = 2
  /\ Len(gen_args.block.rows[1]) = 2
  /\ gen_args.block.rows[1] = <<0, 1>>
  /\ gen_args.block.rows[2][1] = 1
  /\ gen_args.base_position = Pos(3, ARENA_HEIGHT - 1)
  /\ Len(gen_res) >= 2
  /\ gen_res[1] = Pos(4, ARENA_HEIGHT - 1)
  /\ gen_res[2] = Pos(3, ARENA_HEIGHT)

\* The rows below HEIGHT that are complete: WIDTH locked cells, one in each column.
CompleteRows(b) ==
  {h \in 0..(ARENA_HEIGHT - 1) :
     /\ RowCount(b, h) = ARENA_WIDTH
     /\ \A c \in 0..(ARENA_WIDTH - 1) : Pos(c, h) \in DOMAIN b}

\* C17: a row completed by a lock is cleared in the frame of the lock: no frame
\* ends with a complete row of locked cells below HEIGHT.
C17_NoFrameEndsWithACompleteRow ==
  PassDone => CompleteRows(locked) = {}

\* destroy_block's loop with no early exit: every row 0..HEIGHT-1 is visited.
RECURSIVE full_scan_from(_, _, _)
full_scan_from(h, world, doomed) ==
  IF h >= ARENA_HEIGHT THEN [world |-> world, doomed |-> doomed]
  ELSE IF RowCount(world, h) = ARENA_WIDTH
       THEN full_scan_from(h + 1, lower_above(world, h), doomed (+) RowOf(world, h))
       ELSE full_scan_from(h + 1, world, doomed)

\* No row that holds locked cells lies above an empty row.
RowsContiguous(b) ==
  LET occupied == {p.y : p \in DOMAIN b}
  IN \A h \in occupied : \A r \in 0..(h - 1) : r \in occupied

\* C18: in every reachable board the occupied rows are contiguous from row 0, and
\* on the board a frame ends with the pass that stops at the first empty row
\* leaves the board that a pass over all the rows would leave.
C18_EarlyExitPreservesBehaviour ==
  /\ RowsContiguous(LockedCells)
  /\ phase = "idle" =>
       LET d == destroy_block(locked)
           f == full_scan_from(0, locked, EmptyBag)
       IN d.world (-) d.doomed = f.world (-) f.doomed

\* The locked cells with the buffered commands applied: those that stay, and
\* those stack_block has locked in this frame.
Board == (locked (-) cmdDestroy) (+) cmdStack

\* C19: the locked cells change only in a stack_block step, which adds exactly
\* the cells of the active piece (or nothing), and in a destroy_block step; input
\* sampling, the moves, gravity, spawning and the beginning and the end of a
\* frame leave every locked cell as it is.
C19_LockedCellsChangeOnlyByLockAndLineClear ==
  [][/\ Step("stack") => (Board' = Board \/ (is_on /\ Board' = Board (+) active))
     /\ ~(Step("stack") \/ Step("destroy")) => Board' = Board]_vars

\* C19 witness: with cells locked on the board, gravity has just run on a piece
\* in play that is now below the row it was spawned in.
C19_Witness ==
  /\ last = "fall"
  /\ direction # "Down"
  /\ is_on
  /\ locked # EmptyBag
  /\ active # EmptyBag
  /\ \A p \in DOMAIN active : p.y >= 0
  /\ \E p \in DOMAIN active : p.y < ARENA_HEIGHT - 1

\* C20: the game is never stuck: no frame ends with the active flag set and no
\* falling cell on the board.
C20_ActiveFlagHasFallingCells ==
  (phase = "idle" /\ is_on) => active # EmptyBag

=============================================================================
